---------------------------- MODULE Spec2Model ----------------------------
(***************************************************************************)
(* Model of parse_timeline_by_day.py: splitting of timeline segments at    *)
(* midnight, summarising a segment's payload, and grouping the slices by   *)
(* calendar day.                                                           *)
(*                                                                         *)
(* Representation.                                                         *)
(*   - An aware datetime is [date, tod, off]: the local calendar date as a *)
(*     day ordinal, the local time of day in whole seconds, and the UTC    *)
(*     offset in seconds.  Timestamps are modelled at whole-second         *)
(*     resolution.                                                         *)
(*   - Timestamp text read from the input is [date, tod, zone], zone being *)
(*     the text of the offset designator ("Z", "+00:00", "-01:00", or "??" *)
(*     for text datetime.fromisoformat rejects).                           *)
(*   - Text written by datetime.isoformat() is <<date, tod, sign, abs>>:   *)
(*     the fixed-width fields of "YYYY-MM-DDTHH:MM:SS+HH:MM" in order,     *)
(*     sign being the character code of '+' (43) or '-' (45).  Comparing   *)
(*     these tuples field by field is comparing the strings.               *)
(*   - A date().isoformat() key "YYYY-MM-DD" is the day ordinal (the text  *)
(*     is fixed-width, so string order is ordinal order).                  *)
(*   - round(x, 2) of minutes is kept in hundredths of a minute.           *)
(*   - A JSON value is a record: Null, a leaf [val |-> v], a list          *)
(*     [items |-> <<...>>], or an object (a function on its keys).         *)
(***************************************************************************)
EXTENDS Integers, Sequences, FiniteSets, TLC

VARIABLES
    start, end, yielded, splitPc,
    segment, include_timeline_points, details, detPc,
    data, segments, order, index, days, grouped, output, error, pc

splitVars == <<start, end, yielded, splitPc>>
detVars == <<segment, details, detPc>>
mainVars == <<data, segments, order, index, days, grouped, output, error, pc>>
vars == <<splitVars, detVars, include_timeline_points, mainVars>>

--------------------------------------------------------------------------
(* Bounds of the explored inputs *)

MaxDay == 2
MaxSegs == 2
MaxPath == 2

Dates == 0..MaxDay
TimesOfDay == {0, 1801, 82800, 84600}
Offsets == {-3600, 0}
ZoneTexts == {"Z", "-01:00"}

(* Program constants *)
SecondsPerDay == 86400
SecondsPerMinute == 60
PlusChar == 43
MinusChar == 45

--------------------------------------------------------------------------
(* datetime *)

Datetimes == [date : Dates, tod : TimesOfDay, off : Offsets]

utc(d) == d.date * SecondsPerDay + d.tod - d.off

\* aware datetimes compare by instant
dt_lt(a, b) == utc(a) < utc(b)
dt_eq(a, b) == utc(a) = utc(b)

\* mutant: the difference of the local wall-clock readings, offsets ignored
total_seconds_naive(a, b) ==
    (b.date * SecondsPerDay + b.tod) - (a.date * SecondsPerDay + a.tod)

\* (b - a).total_seconds()
total_seconds(a, b) == utc(b) - utc(a)

Abs(n) == IF n < 0 THEN -n ELSE n

isoformat(d) ==
    <<d.date, d.tod, IF d.off < 0 THEN MinusChar ELSE PlusChar, Abs(d.off)>>

\* the instant a rendered timestamp denotes
text_instant(t) ==
    t[1] * SecondsPerDay + t[2] - (IF t[3] = MinusChar THEN -t[4] ELSE t[4])

\* string comparison of two rendered timestamps
RECURSIVE lex_lt(_, _, _)
lex_lt(a, b, i) ==
    IF i > Len(a) THEN FALSE
    ELSE IF a[i] < b[i] THEN TRUE
    ELSE IF a[i] > b[i] THEN FALSE
    ELSE lex_lt(a, b, i + 1)

str_lt(a, b) == lex_lt(a, b, 1)

--------------------------------------------------------------------------
(* parse_iso8601 *)

zone_seconds(z) ==
    CASE z = "+00:00" -> 0
      [] z = "-01:00" -> -3600
      [] z = "+01:00" -> 3600

Raise(exc) == [raised |-> TRUE, exc |-> exc]
Return(v) == [raised |-> FALSE, value |-> v]

parse_iso8601(value) ==
    LET v == IF value.zone = "Z" THEN [value EXCEPT !.zone = "+00:00"] ELSE value
    IN  IF v.zone \in {"+00:00", "-01:00", "+01:00"}
        THEN Return([date |-> v.date, tod |-> v.tod, off |-> zone_seconds(v.zone)])
        ELSE Raise("ValueError")

--------------------------------------------------------------------------
(* split_segment_by_day *)

next_midnight(current) ==
    [date |-> current.date + 1, tod |-> 0, off |-> current.off]

\* mutant: the cursor is advanced to midnight in the end's offset
RECURSIVE split_loop_reoffset(_, _)
split_loop_reoffset(current, e) ==
    IF current.date < e.date
    THEN <<<<current, next_midnight(current)>>>>
         \o split_loop_reoffset([next_midnight(current) EXCEPT !.off = e.off], e)
    ELSE <<<<current, e>>>>

RECURSIVE split_loop(_, _)
split_loop(current, e) ==
    IF current.date < e.date
    THEN <<<<current, next_midnight(current)>>>> \o split_loop(next_midnight(current), e)
    ELSE <<<<current, e>>>>

\* mutant: no early return for a zero-length segment
split_no_early(s, e) ==
    IF dt_lt(e, s) THEN Raise("ValueError")
    ELSE Return(split_loop(s, e))

\* mutant: no check that the end is not before the start
split_unchecked(s, e) ==
    IF dt_eq(e, s) THEN Return(<<<<s, e>>>>)
    ELSE Return(split_loop(s, e))

split_segment_by_day(s, e) ==
    IF dt_lt(e, s) THEN Raise("ValueError")
    ELSE IF dt_eq(e, s) THEN Return(<<<<s, e>>>>)
    ELSE Return(split_loop(s, e))

--------------------------------------------------------------------------
(* JSON values and dict access *)

Null == [null |-> TRUE]
Leaf(v) == [val |-> v]
List(q) == [items |-> q]
EmptyObj == [k \in {} |-> Null]

IsNull(v) == "null" \in DOMAIN v

\* key in d
has(d, key) == key \in DOMAIN d

\* d.get(key, default); d.get(key) is get(d, key, Null)
get(d, key, default) == IF key \in DOMAIN d THEN d[key] ELSE default

--------------------------------------------------------------------------
(* build_segment_details *)

activity_details(seg) ==
    LET activity == get(seg, "activity", EmptyObj)
        top == get(activity, "topCandidate", EmptyObj)
        st == get(activity, "start", EmptyObj)
        en == get(activity, "end", EmptyObj)
    IN  IF IsNull(activity) THEN Raise("AttributeError")
        ELSE IF IsNull(top) THEN Raise("AttributeError")
        ELSE IF IsNull(st) THEN Raise("AttributeError")
        ELSE IF IsNull(en) THEN Raise("AttributeError")
        ELSE Return([segmentType |-> Leaf("activity"),
                     activityType |-> get(top, "type", Null),
                     activityProbability |-> get(top, "probability", Null),
                     segmentProbability |-> get(activity, "probability", Null),
                     distanceMeters |-> get(activity, "distanceMeters", Null),
                     startPoint |-> get(st, "latLng", Null),
                     endPoint |-> get(en, "latLng", Null)])

visit_details(seg) ==
    LET visit == get(seg, "visit", EmptyObj)
        top == get(visit, "topCandidate", EmptyObj)
        loc == get(top, "placeLocation", EmptyObj)
    IN  IF IsNull(visit) THEN Raise("AttributeError")
        ELSE IF IsNull(top) THEN Raise("AttributeError")
        ELSE IF IsNull(loc) THEN Raise("AttributeError")
        ELSE Return([segmentType |-> Leaf("visit"),
                     visitProbability |-> get(visit, "probability", Null),
                     placeId |-> get(top, "placeId", Null),
                     semanticType |-> get(top, "semanticType", Null),
                     placeLocation |-> get(loc, "latLng", Null)])

path_details(seg, include) ==
    LET path == get(seg, "timelinePath", List(<<>>))
        n == Len(path.items)
        base == [segmentType |-> Leaf("timelinePath"), pointCount |-> Leaf(n)]
        ends == IF n > 0
                THEN [firstPoint |-> get(path.items[1], "point", Null),
                      lastPoint |-> get(path.items[n], "point", Null)]
                ELSE EmptyObj
        full == IF include THEN [timelinePath |-> path] ELSE EmptyObj
    IN  IF IsNull(path) THEN Raise("TypeError")
        ELSE IF n > 0 /\ (IsNull(path.items[1]) \/ IsNull(path.items[n])) THEN Raise("AttributeError")
        ELSE Return(base @@ ends @@ full)

build_segment_details(seg, include) ==
    IF has(seg, "activity") THEN activity_details(seg)
    ELSE IF has(seg, "visit") THEN visit_details(seg)
    ELSE path_details(seg, include)


--------------------------------------------------------------------------
(* parse_by_day *)

\* round(seconds / 60.0, 2), in hundredths of a minute.  A whole number of
\* seconds is never half-way between two hundredths, so this is the nearest.
round2(secs) == (secs * 100 + SecondsPerMinute \div 2) \div SecondsPerMinute

slice_entry(idx, seg, det, sl) ==
    [segmentIndex |-> idx,
     startTime |-> isoformat(sl[1]),
     endTime |-> isoformat(sl[2]),
     durationMinutes |-> round2(total_seconds(sl[1], sl[2])),
     originalStartTime |-> seg["startTime"],
     originalEndTime |-> seg["endTime"],
     details |-> det]

\* mutant: every slice opens a bucket of its own
days_append_new(ds, key, entry) ==
    Append(ds, [day |-> key, entries |-> <<entry>>])

\* days[day_key].append(entry) on an insertion-ordered defaultdict(list)
days_append(ds, key, entry) ==
    IF \E i \in 1..Len(ds) : ds[i].day = key
    THEN [i \in 1..Len(ds) |->
            IF ds[i].day = key
            THEN [ds[i] EXCEPT !.entries = Append(@, entry)]
            ELSE ds[i]]
    ELSE Append(ds, [day |-> key, entries |-> <<entry>>])

RECURSIVE append_slices(_, _, _, _, _, _)
append_slices(ds, idx, seg, det, slices, i) ==
    IF i > Len(slices) THEN ds
    ELSE append_slices(
            days_append(ds, slices[i][1].date, slice_entry(idx, seg, det, slices[i])),
            idx, seg, det, slices, i + 1)

\* one iteration of the loop over enumerate(segments)
process_segment(ds, idx, seg, include) ==
    IF ~has(seg, "startTime") THEN Raise("KeyError")
    ELSE LET s == parse_iso8601(seg["startTime"]) IN
    IF s.raised THEN s
    ELSE IF ~has(seg, "endTime") THEN Raise("KeyError")
    ELSE LET e == parse_iso8601(seg["endTime"]) IN
    IF e.raised THEN e
    ELSE LET det == build_segment_details(seg, include) IN
    IF det.raised THEN det
    ELSE LET sp == split_segment_by_day(s.value, e.value) IN
    IF sp.raised THEN sp
    ELSE Return(append_slices(ds, idx, seg, det.value, sp.value, 1))

\* list.sort(key=startTime): stable, by string comparison of the key
RECURSIVE insert_entry(_, _)
insert_entry(sorted, e) ==
    IF sorted = <<>> THEN <<e>>
    ELSE IF str_lt(e.startTime, Head(sorted).startTime) THEN <<e>> \o sorted
    ELSE <<Head(sorted)>> \o insert_entry(Tail(sorted), e)

\* mutant: the bucket is left in insertion order
sort_entries_none(entries, i) == entries

RECURSIVE sort_entries(_, _)
sort_entries(entries, i) ==
    IF i = 0 THEN <<>>
    ELSE insert_entry(sort_entries(entries, i - 1), entries[i])

sort_buckets(ds) ==
    [i \in 1..Len(ds) |->
        [ds[i] EXCEPT !.entries = sort_entries(@, Len(@))]]

\* {day: days[day] for day in sorted(days)}
RECURSIVE insert_day(_, _)
insert_day(sorted, b) ==
    IF sorted = <<>> THEN <<b>>
    ELSE IF b.day < Head(sorted).day THEN <<b>> \o sorted
    ELSE <<Head(sorted)>> \o insert_day(Tail(sorted), b)

\* mutant: the buckets are left in insertion order
sorted_days_none(ds, i) == ds

RECURSIVE sorted_days(_, _)
sorted_days(ds, i) ==
    IF i = 0 THEN <<>>
    ELSE insert_day(sorted_days(ds, i - 1), ds[i])


\* the loop of parse_by_day over the first n positions of the processing order
RECURSIVE loop_segments(_, _, _, _)
loop_segments(segs, ord, include, n) ==
    IF n = 0 THEN Return(<<>>)
    ELSE LET before == loop_segments(segs, ord, include, n - 1) IN
         IF before.raised THEN before
         ELSE process_segment(before.value, ord[n] - 1, segs[ord[n]], include)

\* the sorting and the returned mapping
return_value(ds) == sorted_days(sort_buckets(ds), Len(ds))

parse_by_day(segs, ord, include) ==
    LET looped == loop_segments(segs, ord, include, Len(segs))
    IN  IF looped.raised THEN looped ELSE Return(return_value(looped.value))

--------------------------------------------------------------------------
(* Inputs *)

Texts == [date : Dates, tod : TimesOfDay, zone : ZoneTexts]
BadText == [date |-> 0, tod |-> 0, zone |-> "??"]

\* six timestamps around one midnight, in two offsets
PoolTexts ==
    { [date |-> 0, tod |-> 0, zone |-> "-01:00"],
      [date |-> 0, tod |-> 1801, zone |-> "Z"],
      [date |-> 0, tod |-> 82800, zone |-> "-01:00"],
      [date |-> 0, tod |-> 84600, zone |-> "-01:00"],
      [date |-> 1, tod |-> 0, zone |-> "Z"],
      [date |-> 1, tod |-> 1801, zone |-> "-01:00"] }

VisitPayload == [visit |-> [probability |-> Leaf("0.9")]]

timed(s, e) == [startTime |-> s, endTime |-> e]

SingleSegments == {timed(s, e) @@ VisitPayload : s \in Texts, e \in Texts}

PoolSegments ==
    {timed(s, e) @@ VisitPayload : s \in PoolTexts \cup {BadText},
                                   e \in PoolTexts \cup {BadText}}
    \cup {[startTime |-> s] @@ VisitPayload : s \in {CHOOSE t \in PoolTexts : t.tod = 1801}}
    \cup {[endTime |-> s] @@ VisitPayload : s \in {CHOOSE t \in PoolTexts : t.tod = 1801}}
    \cup {timed(s, s) @@ [activity |-> Null] : s \in {CHOOSE t \in PoolTexts : t.tod = 1801}}

SeqsUpTo(S, n) == UNION {[1..k -> S] : k \in 0..n}

SegmentLists ==
    SeqsUpTo(PoolSegments, MaxSegs) \cup {<<g>> : g \in SingleSegments}

NoFile == Null

Documents ==
    {NoFile, EmptyObj, [semanticSegments |-> Leaf("x")]}
    \cup {[semanticSegments |-> List(q)] : q \in SegmentLists}

\* the segments of the pool that parse_by_day accepts and that start and end
\* early in the day, and the documents made of them
ValidPoolSegments ==
    {g \in PoolSegments :
        /\ ~process_segment(<<>>, 0, g, FALSE).raised
        /\ g["startTime"].tod \in {0, 1801}
        /\ g["endTime"].tod \in {0, 1801}}

ValidDocuments ==
    {[semanticSegments |-> List(q)] : q \in SeqsUpTo(ValidPoolSegments, MaxSegs)}

\* payload shapes for build_segment_details
Opt(key, vals) == {EmptyObj} \cup {key :> v : v \in vals}

Points == {Null, EmptyObj, [latLng |-> Leaf("p")]}

Activities ==
    {Null} \cup
    {a @@ b @@ c @@ d :
        a \in Opt("topCandidate",
                  {Null, EmptyObj, [type |-> Leaf("WALKING"), probability |-> Leaf("0.8")]}),
        b \in Opt("start", Points),
        c \in Opt("end", Points),
        d \in Opt("probability", {Leaf("0.9")})}

Visits ==
    {Null} \cup
    {a @@ b :
        a \in Opt("topCandidate",
                  {Null, EmptyObj, [placeId |-> Leaf("id"), semanticType |-> Leaf("HOME")]}
                  \cup {[placeLocation |-> l] : l \in Points}),
        b \in Opt("probability", {Leaf("0.9")})}

PathPoints == {Null, EmptyObj, [point |-> Leaf("p")]}

Paths == {Null} \cup {List(q) : q \in SeqsUpTo(PathPoints, MaxPath)}

DetailSegments ==
    {a @@ v @@ t :
        a \in Opt("activity", Activities),
        v \in Opt("visit", Visits),
        t \in Opt("timelinePath", Paths)}

--------------------------------------------------------------------------
(* State machines *)

Identity(n) == [i \in 1..n |-> i]

list_len(d) ==
    IF IsNull(d) THEN 0
    ELSE IF has(get(d, "semanticSegments", List(<<>>)), "items")
         THEN Len(get(d, "semanticSegments", List(<<>>)).items)
         ELSE 0

SplitIdle ==
    /\ start = Null /\ end = Null /\ yielded = Null /\ splitPc = "idle"

DetIdle ==
    /\ segment = Null /\ details = Null /\ detPc = "idle"

MainIdle ==
    /\ data = Null /\ segments = <<>> /\ order = <<>> /\ index = 0
    /\ days = <<>> /\ grouped = <<>> /\ output = Null /\ error = "none"
    /\ pc = "idle"

(* split_segment_by_day applied to one pair of datetimes *)
SplitInit ==
    /\ start \in Datetimes /\ end \in Datetimes
    /\ yielded = Null /\ splitPc = "call"
    /\ include_timeline_points = FALSE
    /\ DetIdle /\ MainIdle

SplitRaise ==
    /\ splitPc = "call"
    /\ split_segment_by_day(start, end).raised
    /\ splitPc' = "raised"
    /\ UNCHANGED <<start, end, yielded, detVars, include_timeline_points, mainVars>>

SplitYield ==
    /\ splitPc = "call"
    /\ ~split_segment_by_day(start, end).raised
    /\ yielded' = List(split_segment_by_day(start, end).value)
    /\ splitPc' = "done"
    /\ UNCHANGED <<start, end, detVars, include_timeline_points, mainVars>>

SplitNext == SplitRaise \/ SplitYield

SplitSpec == SplitInit /\ [][SplitNext]_vars

(* build_segment_details applied to one segment *)
DetInit ==
    /\ segment \in DetailSegments
    /\ include_timeline_points \in BOOLEAN
    /\ details = Null /\ detPc = "call"
    /\ SplitIdle /\ MainIdle

DetRaise ==
    /\ detPc = "call"
    /\ build_segment_details(segment, include_timeline_points).raised
    /\ detPc' = "raised"
    /\ UNCHANGED <<segment, details, splitVars, include_timeline_points, mainVars>>

DetReturn ==
    /\ detPc = "call"
    /\ ~build_segment_details(segment, include_timeline_points).raised
    /\ details' = build_segment_details(segment, include_timeline_points).value
    /\ detPc' = "done"
    /\ UNCHANGED <<segment, splitVars, include_timeline_points, mainVars>>

DetNext == DetRaise \/ DetReturn

DetSpec == DetInit /\ [][DetNext]_vars

(* main: load the document, parse_by_day, write the output *)
MainInit(documents, orders) ==
    /\ data \in documents
    /\ order \in orders[list_len(data)]
    /\ segments = <<>> /\ index = 0
    /\ days = <<>> /\ grouped = <<>> /\ output = Null /\ error = "none"
    /\ pc = "main"
    /\ include_timeline_points = FALSE
    /\ SplitIdle /\ DetIdle

Init == MainInit(Documents, [n \in 0..(MaxSegs + 1) |-> {Identity(n)}])

InitPerm == MainInit(ValidDocuments, [n \in 0..(MaxSegs + 1) |-> Permutations(1..n)])

mainRest == <<splitVars, detVars, include_timeline_points, data, order>>

MainLoad ==
    /\ pc = "main"
    /\ IF IsNull(data)
       THEN /\ error' = "FileNotFoundError" /\ pc' = "error"
            /\ UNCHANGED segments
       ELSE IF ~has(get(data, "semanticSegments", List(<<>>)), "items")
       THEN /\ error' = "ValueError" /\ pc' = "error"
            /\ UNCHANGED segments
       ELSE /\ segments' = get(data, "semanticSegments", List(<<>>)).items
            /\ pc' = "loop"
            /\ UNCHANGED error
    /\ UNCHANGED <<index, days, grouped, output, mainRest>>

LoopBody ==
    /\ pc = "loop"
    /\ index < Len(segments)
    /\ LET k == order[index + 1]
           r == process_segment(days, k - 1, segments[k], include_timeline_points)
       IN  IF r.raised
           THEN /\ error' = r.exc /\ pc' = "error"
                /\ UNCHANGED <<index, days>>
           ELSE /\ days' = r.value
                /\ index' = index + 1
                /\ UNCHANGED <<error, pc>>
    /\ UNCHANGED <<segments, grouped, output, mainRest>>

SortReturn ==
    /\ pc = "loop"
    /\ index = Len(segments)
    /\ days' = sort_buckets(days)
    /\ grouped' = return_value(days)
    /\ pc' = "output"
    /\ UNCHANGED <<segments, index, output, error, mainRest>>

WriteOutput ==
    /\ pc = "output"
    /\ \E args_stdout \in BOOLEAN :
        output' = [to |-> IF args_stdout THEN "stdout" ELSE "file",
                   dayCount |-> Len(grouped),
                   segmentCount |-> Len(segments),
                   days |-> grouped]
    /\ pc' = "done"
    /\ UNCHANGED <<segments, index, days, grouped, error, mainRest>>

Next == MainLoad \/ LoopBody \/ SortReturn \/ WriteOutput

Spec == Init /\ [][Next]_vars

SpecPerm == InitPerm /\ [][Next]_vars


--------------------------------------------------------------------------
(* Properties of split_segment_by_day (SplitSpec) *)

Slices == yielded.items

\* midnight at the start of the day after d's date, in d's offset, as an instant
day_end(d) == (d.date + 1) * SecondsPerDay - d.off

C2_SingleDay ==
    splitPc = "done" =>
        \A i \in 1..Len(Slices) : utc(Slices[i][2]) <= day_end(Slices[i][1])

\* C3 (as claimed): every yielded pair has its start no later than its end.
C3_Ordered ==
    splitPc = "done" =>
        \A i \in 1..Len(Slices) : utc(Slices[i][1]) <= utc(Slices[i][2])

\* C5: when start and end have the same calendar date, or are the same
\* instant, exactly one pair is yielded and it is (start, end).
C5_SameDay ==
    (splitPc = "done" /\ (start.date = end.date \/ dt_eq(start, end))) =>
        Slices = <<<<start, end>>>>

\* C5 witness: a same-date segment of positive length has been split
C5_Witness ==
    /\ splitPc = "done"
    /\ start.date = end.date
    /\ dt_lt(start, end)
    /\ Len(Slices) = 1

\* C5 witness for the zero-length case across two dates
C5_WitnessPoint ==
    /\ splitPc = "done"
    /\ dt_eq(start, end)
    /\ start.date # end.date


--------------------------------------------------------------------------
(* Properties of parse_by_day and main (Spec, SpecPerm) *)

Returned == pc \in {"output", "done"}

RECURSIVE flatten(_, _)
flatten(g, i) ==
    IF i = 0 THEN <<>> ELSE flatten(g, i - 1) \o g[i].entries

\* every slice of the returned mapping, bucket after bucket
AllSlices == flatten(grouped, Len(grouped))

RECURSIVE sum_minutes(_, _, _)
sum_minutes(q, idx, i) ==
    IF i = 0 THEN 0
    ELSE sum_minutes(q, idx, i - 1)
         + (IF q[i].segmentIndex = idx THEN q[i].durationMinutes ELSE 0)

slice_count(q, idx) == Cardinality({i \in 1..Len(q) : q[i].segmentIndex = idx})

start_of(seg) == parse_iso8601(seg["startTime"]).value
end_of(seg) == parse_iso8601(seg["endTime"]).value

\* C4: for every segment, the durations of its slices (hundredths of a minute)
\* add up to end - start, within 0.01 minute per slice.  Both sides are
\* scaled by 60 to stay in integers: 100 * seconds against 60 * hundredths.
C4_DurationSum ==
    Returned =>
        \A k \in 1..Len(segments) :
            LET secs == utc(end_of(segments[k])) - utc(start_of(segments[k]))
                total == sum_minutes(AllSlices, k - 1, Len(AllSlices))
            IN  Abs(SecondsPerMinute * total - 100 * secs)
                    <= SecondsPerMinute * slice_count(AllSlices, k - 1)

\* C4 witness: a segment split in two whose rounded durations do not add up
\* exactly to its length
C4_Witness ==
    /\ Returned
    /\ \E k \in 1..Len(segments) :
        /\ slice_count(AllSlices, k - 1) >= 2
        /\ SecondsPerMinute * sum_minutes(AllSlices, k - 1, Len(AllSlices))
              # 100 * (utc(end_of(segments[k])) - utc(start_of(segments[k])))

\* a segment whose times make parse_by_day fail: a missing startTime or
\* endTime, a malformed timestamp, or an end before the start
time_bad(seg) ==
    \/ ~has(seg, "startTime")
    \/ ~has(seg, "endTime")
    \/ seg["startTime"].zone = "??"
    \/ seg["endTime"].zone = "??"
    \/ utc(end_of(seg)) < utc(start_of(seg))

BadSegments == {k \in 1..Len(segments) : time_bad(segments[k])}

FirstBad == CHOOSE k \in BadSegments : \A j \in BadSegments : k <= j

\* C6: with a bad segment in the input the loop never gets past the first
\* one, the run stops there with an error when nothing before it failed, and
\* no output is produced; an output exists only after every segment was
\* processed.
C6_AllOrNothing ==
    /\ BadSegments # {} =>
          /\ output = Null
          /\ pc \in {"loop", "error"}
          /\ index < FirstBad
          /\ (pc = "error" /\ error \in {"KeyError", "ValueError"})
                => index + 1 = FirstBad
    /\ pc = "error" => output = Null
    /\ output # Null =>
          /\ pc = "done"
          /\ index = Len(segments)
          /\ BadSegments = {}

\* C6 witness: the run stopped at a bad segment after processing a good one
C6_Witness ==
    /\ pc = "error"
    /\ index >= 1
    /\ days # <<>>
    /\ BadSegments # {}
    /\ output = Null

KeysAscending ==
    \A i \in 1..(Len(grouped) - 1) : grouped[i].day < grouped[i + 1].day

\* C7 (as claimed): day keys strictly ascending, and in every bucket the
\* slices in ascending order of their start instant.
C7_TimeOrder ==
    Returned =>
        /\ KeysAscending
        /\ \A b \in 1..Len(grouped) :
            \A i \in 1..(Len(grouped[b].entries) - 1) :
                text_instant(grouped[b].entries[i].startTime)
                    <= text_instant(grouped[b].entries[i + 1].startTime)

same_offset(q) ==
    \A i, j \in 1..Len(q) :
        /\ q[i].startTime[3] = q[j].startTime[3]
        /\ q[i].startTime[4] = q[j].startTime[4]

\* C7 (amended): day keys strictly ascending, and in every bucket the slices
\* in ascending order of their start-time text; that is the order of the
\* start instants when the bucket's slices all carry the same offset.
C7_TextOrder ==
    Returned =>
        /\ KeysAscending
        /\ \A b \in 1..Len(grouped) :
            LET q == grouped[b].entries IN
            /\ \A i \in 1..(Len(q) - 1) : ~str_lt(q[i + 1].startTime, q[i].startTime)
            /\ same_offset(q) =>
                 \A i \in 1..(Len(q) - 1) :
                    text_instant(q[i].startTime) <= text_instant(q[i + 1].startTime)

\* C7 witness: two buckets, one of them holding slices of two segments that
\* were appended in descending order and carry different offsets
C7_Witness ==
    /\ Returned
    /\ Len(grouped) >= 2
    /\ \E b \in 1..Len(grouped) :
        LET q == grouped[b].entries IN
        /\ Len(q) >= 2
        /\ ~same_offset(q)
        /\ q[1].segmentIndex > q[2].segmentIndex
        /\ str_lt(q[1].startTime, q[2].startTime)

Keys == {grouped[i].day : i \in 1..Len(grouped)}

NonEmptyBuckets == \A i \in 1..Len(grouped) : grouped[i].entries # <<>>

\* the dates from the start's date through the end's date
touched(seg) == start_of(seg).date .. end_of(seg).date

\* C8 (as claimed): segmentCount is the number of input segments, dayCount
\* the number of dates between a segment's start date and end date, and the
\* buckets are exactly those dates, none empty.
C8_Counts ==
    pc = "done" =>
        LET dates == UNION {touched(segments[k]) : k \in 1..Len(segments)} IN
        /\ output.segmentCount = Len(segments)
        /\ output.dayCount = Cardinality(dates)
        /\ Keys = dates
        /\ NonEmptyBuckets

\* the dates a segment's slices are filed under
filed(seg) ==
    IF dt_eq(start_of(seg), end_of(seg)) THEN {start_of(seg).date}
    ELSE touched(seg) \cup {start_of(seg).date}

\* C8 (amended): as C8, the dates of a segment being those from its start's
\* date through its end's date, or its start's date alone when the segment
\* has zero length or its end's date, read in the end's own offset, is
\* earlier than the start's date.
C8_CountsAmended ==
    pc = "done" =>
        LET dates == UNION {filed(segments[k]) : k \in 1..Len(segments)} IN
        /\ output.segmentCount = Len(segments)
        /\ output.dayCount = Cardinality(dates)
        /\ output.days = grouped
        /\ Keys = dates
        /\ NonEmptyBuckets

\* C8 witness: two segments, more slices than segments, and two segments
\* sharing a date
C8_Witness ==
    /\ pc = "done"
    /\ output.segmentCount = 2
    /\ Len(AllSlices) > 2
    /\ output.dayCount = 2
    /\ \E b \in 1..Len(grouped) :
        \E i, j \in 1..Len(grouped[b].entries) :
            grouped[b].entries[i].segmentIndex # grouped[b].entries[j].segmentIndex

\* the mapping returned when the segments are processed in input order
InOrder == parse_by_day(segments, Identity(Len(segments)), include_timeline_points).value

\* C9 (as claimed): whatever the processing order, the returned mapping is
\* the one obtained in input order.
C9_OrderIndependent ==
    Returned => grouped = InOrder

Range(q) == {q[i] : i \in 1..Len(q)}

distinct_starts(q) ==
    \A i, j \in 1..Len(q) : i # j => q[i].startTime # q[j].startTime

\* C9 (amended): whatever the processing order, the returned mapping has the
\* bucket keys, and in every bucket the slices, obtained in input order; the
\* slices of a bucket are also in the same sequence when no two of them have
\* the same start-time text.
C9_OrderIndependentAmended ==
    Returned =>
        /\ Len(grouped) = Len(InOrder)
        /\ \A b \in 1..Len(grouped) :
            /\ grouped[b].day = InOrder[b].day
            /\ Len(grouped[b].entries) = Len(InOrder[b].entries)
            /\ Range(grouped[b].entries) = Range(InOrder[b].entries)
            /\ distinct_starts(grouped[b].entries)
                  => grouped[b].entries = InOrder[b].entries

\* C9 witness: two segments processed in reverse order whose slices share a
\* bucket and have different start-time texts
C9_Witness ==
    /\ Returned
    /\ order = <<2, 1>>
    /\ \E b \in 1..Len(grouped) :
        LET q == grouped[b].entries IN
        /\ Len(q) >= 2
        /\ distinct_starts(q)
        /\ \E i, j \in 1..Len(q) : q[i].segmentIndex # q[j].segmentIndex

--------------------------------------------------------------------------
(* Properties of build_segment_details (DetSpec) *)

precedence(seg) ==
    IF has(seg, "activity") THEN "activity"
    ELSE IF has(seg, "visit") THEN "visit"
    ELSE "timelinePath"

\* C10 (as claimed): build_segment_details never raises, whatever is missing
\* or null in the segment, and the summary has the segmentType given by the
\* precedence activity > visit > timelinePath.
C10_Total ==
    /\ detPc # "raised"
    /\ detPc = "done" => details.segmentType = Leaf(precedence(segment))


==========================================================================
